---- MODULE Spec2Model ----
(***************************************************************************)
(* tease: run a child command with stdout/stderr redirected into a scratch *)
(* file, poll the file and render its last line, dump the whole file when  *)
(* the child fails.  Model of src/tease.c.                                 *)
(*                                                                         *)
(* Two processes are modelled: the supervisor (main), one action per       *)
(* system call or block of main, and the child, which writes through the   *)
(* file description it shares with the supervisor (dup2 of tmpfd, so the   *)
(* file offset is shared) and exits.                                       *)
(***************************************************************************)
EXTENDS Integers, Sequences, FiniteSets, TLC

\* ---------------------------------------------------------------- bounds
\* most bytes the child writes to the scratch file in one run
MaxFile == 3
\* most bytes of one write() of the child
MaxWrite == 2
\* child exit codes 0..MaxExit (and 255) are tried
MaxExit == 2
\* largest file and most output of the runs checked for the arithmetic of
\* the poll on sizes that do not fit int
SizeMax == 18
SizeMaxOut == 14
\* most bytes the child writes in the runs checked for termination
LiveMaxFile == 1

\* ------------------------------------------------------------- constants
\* window of the tail read; 500 in the source, scaled down so that files
\* shorter than, equal to and longer than the window all occur
HOW_MANY_BYTES_FROM_THE_END == 2
\* dump buffer; 8192 in the source, scaled down so that a dump takes
\* several chunks (each read asks for PRINT_BUF_SIZE - 1 bytes)
PRINT_BUF_SIZE == 3
FAILED_TO_WRITE_TO_STDERR == 12
\* width of int, the type of last_size, how_many_bytes and min(); 32 in the
\* builds of the source, scaled down so that sizes that do not fit occur
INT_BITS == 4
EXIT_SUCCESS == 0
EXIT_FAILURE == 1
ENOENT == 2
ENOMEM == 12
EACCES == 13

NUL == 0
NL == 10
\* the byte alphabet of the child's output: the terminator, the newline and
\* a letter
Bytes == {NUL, NL, 97}

\* "\x1B[2K\r"
CLEAR_LINE == <<27, 91, 50, 75, 13>>

CWD == "._tease.XXXXXX"
TMP == "/tmp/tease.XXXXXX"

VARIABLES
  pc,                 \* position of the supervisor in main
  exit_code,          \* exit code of the supervisor process, -1 while it runs
  exit_status,        \* main's local exit_status
  tmpfd,              \* descriptor returned by mkstemp, -1 if none
  fd_open,            \* tmpfd is open in the supervisor
  delete_file_in_cwd,
  fs,                 \* scratch paths that exist in the file system
  unlinked,           \* paths unlink() was called on, in order
  file_actions,       \* child descriptors the file actions dup2 tmpfd onto
  child,              \* "none", "running", "zombie" (exited, not reaped), "reaped"
  child_status,       \* wait status of the exited child
  file,               \* content of the scratch file
  off,                \* offset of the open file description shared with the child
  childOut,           \* every byte the child wrote to the scratch file, in order
  st_size,            \* file_status.st_size of the last successful fstat
  last_size,
  last_line,          \* bytes the last tail read put into last_line
  printed_something,
  out,                \* bytes the supervisor wrote to standard output
  created,            \* history: scratch paths mkstemp created
  start_failed,       \* history: a call between mkstemp and the loop failed
  dump_start,         \* history: Len(out) when the full dump began, -1 if none
  quiet,              \* history: a tail read succeeded and the child has not
                      \* written since
  oob                 \* history: access to last_line[-1], "none", "read" or
                      \* "write" (the byte there was a newline and was zeroed)

vars == <<pc, exit_code, exit_status, tmpfd, fd_open, delete_file_in_cwd, fs,
          unlinked, file_actions, child, child_status, file, off, childOut,
          st_size, last_size, last_line, printed_something, out, created,
          start_failed, dump_start, quiet, oob>>

\* ------------------------------------------------------------- helpers
min(n1, n2) == IF n1 < n2 THEN n1 ELSE n2

\* conversion of an integer to int: wrap-around modulo 2^INT_BITS
INT_MIN == -(2 ^ (INT_BITS - 1))
ToInt(x) == ((x - INT_MIN) % (2 ^ INT_BITS)) + INT_MIN

\* line 190: int how_many_bytes = min(HOW_MANY_BYTES_FROM_THE_END, st_size),
\* st_size converted to int for the call
HowManyBytes(size) == min(HOW_MANY_BYTES_FROM_THE_END, ToInt(size))

\* line 191: the offset argument -1 * how_many_bytes.  The product of -1 and
\* INT_MIN overflows int: the build either wraps it to INT_MIN or computes
\* it in the width of off_t
SeekOffsets(how_many_bytes) == {ToInt(-how_many_bytes), -how_many_bytes}

\* sequences over Bytes of length 1..n
RECURSIVE SeqsUpTo(_)
SeqsUpTo(n) ==
  IF n = 0 THEN {<<>>}
  ELSE LET S == SeqsUpTo(n - 1)
       IN S \cup {Append(s, b) : s \in {t \in S : Len(t) = n - 1}, b \in Bytes}

\* wait status encoding: exit code in bits 8..15, signal in bits 0..6
ExitedWith(k) == k * 256
KilledBy(sig) == sig
WIFEXITED(s) == s % 128 = 0
WIFSIGNALED(s) == s % 128 # 0
\* mutant: the low byte of the status taken for the exit code
WEXITSTATUS_LowByte(s) == s % 256
WEXITSTATUS(s) == (s \div 256) % 256

ExitCodes == (0..MaxExit) \cup {255}
\* SIGKILL
Signals == {9}
ChildStatuses ==
  {ExitedWith(k) : k \in ExitCodes} \cup {KilledBy(sig) : sig \in Signals}

\* read(fd, buf, count): the bytes at the offset, at most count, up to EOF
ReadBytes(f, o, count) ==
  IF o >= Len(f) THEN <<>> ELSE SubSeq(f, o + 1, min(Len(f), o + count))

\* write(fd, data) at offset o of a file not opened with O_APPEND; a gap
\* between the end of the file and o reads as zero bytes
WriteAt(f, o, data) ==
  LET n == IF o + Len(data) > Len(f) THEN o + Len(data) ELSE Len(f)
  IN [i \in 1..n |-> IF i > o /\ i <= o + Len(data) THEN data[i - o]
                     ELSE IF i <= Len(f) THEN f[i] ELSE NUL]

\* printf("%s", p): the bytes of s from 0-based index start up to the first NUL
RECURSIVE CStr(_, _)
CStr(s, start) ==
  IF start >= Len(s) \/ s[start + 1] = NUL THEN <<>>
  ELSE <<s[start + 1]>> \o CStr(s, start + 1)

\* while (pos_of_nl > 0) { if (last_line[--pos_of_nl] == '\n') break; }
RECURSIVE ScanBack(_, _)
ScanBack(buf, pos) ==
  IF pos > 0
  THEN IF buf[pos] = NL THEN pos - 1 ELSE ScanBack(buf, pos - 1)
  ELSE pos

\* lines 203-218: what printf prints after the clear sequence for the nread
\* bytes win read into last_line.  With nread = 0 the code reads
\* last_line[-1], starts at pos_of_nl = -1 and prints from last_line[0],
\* which is the terminator: the empty string.
\* lines 207-209: a trailing newline is replaced by the terminator
Trimmed(win) ==
  IF Len(win) > 0 /\ win[Len(win)] = NL
  THEN [win EXCEPT ![Len(win)] = NUL] ELSE win

\* lines 211-216: pos_of_nl after the scan, which starts at nread - 1
PosOfNl(win) == ScanBack(Trimmed(win), Len(win) - 1)

\* line 218: pos_of_nl + (pos_of_nl != 0)
PrintOffset(win) == PosOfNl(win) + (IF PosOfNl(win) # 0 THEN 1 ELSE 0)

TailFragment(win) == CStr(Trimmed(win), PrintOffset(win))

\* error(): vfprintf to stderr either succeeds or fails
StderrResults == {-1, 1}

Exit(code) == pc' = "terminated" /\ exit_code' = code

\* ---------------------------------------------------------------- Init
Init ==
  /\ pc = "check_inputs"
  /\ exit_code = -1
  /\ exit_status = EXIT_SUCCESS
  /\ tmpfd = -1
  /\ fd_open = FALSE
  /\ delete_file_in_cwd = TRUE
  /\ fs = {}
  /\ unlinked = <<>>
  /\ file_actions = {}
  /\ child = "none"
  /\ child_status = 0
  /\ file = <<>>
  /\ off = 0
  /\ childOut = <<>>
  /\ st_size = 0
  /\ last_size = 0
  /\ last_line = <<>>
  /\ printed_something = FALSE
  /\ out = <<>>
  /\ created = {}
  /\ start_failed = FALSE
  /\ dump_start = -1
  /\ quiet = FALSE
  /\ oob = "none"

\* ------------------------------------------------------- the supervisor
\* lines 80-83
CheckInputs ==
  /\ pc = "check_inputs"
  /\ \E argc \in {1, 2} :
       IF argc <= 1
       THEN \E w \in StderrResults :
              IF w < 0 THEN Exit(FAILED_TO_WRITE_TO_STDERR) ELSE Exit(EXIT_FAILURE)
       ELSE pc' = "mkstemp_cwd" /\ UNCHANGED exit_code
  /\ UNCHANGED <<exit_status, tmpfd, fd_open, delete_file_in_cwd, fs, unlinked,
                 file_actions, child, child_status, file, off, childOut,
                 st_size, last_size, last_line, printed_something, out>>
  /\ UNCHANGED <<created, start_failed, dump_start>>
  /\ UNCHANGED <<quiet, oob>>

\* lines 85-90: mkstemp in the current directory
MkstempCwd ==
  /\ pc = "mkstemp_cwd"
  /\ \E r \in {-1, 3} :
       /\ tmpfd' = r
       /\ IF r < 0
          THEN /\ delete_file_in_cwd' = FALSE
               /\ pc' = "mkstemp_tmp"
               /\ UNCHANGED <<fs, fd_open, created>>
          ELSE /\ fs' = fs \cup {CWD}
               /\ created' = created \cup {CWD}
               /\ fd_open' = TRUE
               /\ pc' = "file_actions_init"
               /\ UNCHANGED delete_file_in_cwd
  /\ UNCHANGED <<exit_code, exit_status, unlinked, file_actions, child,
                 child_status, file, off, childOut, st_size, last_size,
                 last_line, printed_something, out>>
  /\ UNCHANGED <<start_failed, dump_start>>
  /\ UNCHANGED <<quiet, oob>>

\* lines 91-94: mkstemp in /tmp
MkstempTmp ==
  /\ pc = "mkstemp_tmp"
  /\ \E r \in {-1, 3} :
       /\ tmpfd' = r
       /\ IF r < 0
          THEN /\ Exit(EXIT_FAILURE)
               /\ UNCHANGED <<fs, fd_open, created>>
          ELSE /\ fs' = fs \cup {TMP}
               /\ created' = created \cup {TMP}
               /\ fd_open' = TRUE
               /\ pc' = "file_actions_init"
               /\ UNCHANGED exit_code
  /\ UNCHANGED <<exit_status, delete_file_in_cwd, unlinked, file_actions,
                 child, child_status, file, off, childOut, st_size, last_size,
                 last_line, printed_something, out>>
  /\ UNCHANGED <<start_failed, dump_start>>
  /\ UNCHANGED <<quiet, oob>>

\* values a posix_spawn_file_actions_* call can hand back: 0, an error
\* number, and the negative value the code tests for
FileActionsResults == {-1, 0, ENOMEM}

\* lines 117-121
FileActionsInit ==
  /\ pc = "file_actions_init"
  /\ \E r \in FileActionsResults :
       /\ pc' = IF r < 0 THEN "cleanup_temp_file" ELSE "adddup2_stdout"
       /\ start_failed' = (start_failed \/ r # 0)
  /\ UNCHANGED <<exit_code, exit_status, tmpfd, fd_open, delete_file_in_cwd,
                 fs, unlinked, file_actions, child, child_status, file, off,
                 childOut, st_size, last_size, last_line, printed_something,
                 out>>
  /\ UNCHANGED <<created, dump_start>>
  /\ UNCHANGED <<quiet, oob>>

\* lines 124-126 (fd = 1) and 145-147 (fd = 2): the action is recorded only
\* by a call that returns 0
AddDup2(at, fd, next) ==
  /\ pc = at
  /\ \E r \in FileActionsResults :
       /\ pc' = IF r < 0 THEN "cleanup" ELSE next
       /\ start_failed' = (start_failed \/ r # 0)
       /\ file_actions' = IF r = 0 THEN file_actions \cup {fd} ELSE file_actions
  /\ UNCHANGED <<exit_code, exit_status, tmpfd, fd_open, delete_file_in_cwd,
                 fs, unlinked, child, child_status, file, off, childOut,
                 st_size, last_size, last_line, printed_something, out>>
  /\ UNCHANGED <<created, dump_start>>
  /\ UNCHANGED <<quiet, oob>>

AddDup2Stdout == AddDup2("adddup2_stdout", 1, "adddup2_stderr")
AddDup2Stderr == AddDup2("adddup2_stderr", 2, "spawn")

SpawnResults == {0, ENOENT, EACCES}

\* lines 149-180
Spawn ==
  /\ pc = "spawn"
  /\ \E spawn_res \in SpawnResults :
       /\ start_failed' = (start_failed \/ spawn_res # 0)
       /\ IF spawn_res = ENOENT
          THEN /\ \E w \in StderrResults :
                    IF w < 0
                    THEN Exit(FAILED_TO_WRITE_TO_STDERR) /\ UNCHANGED exit_status
                    ELSE /\ exit_status' = EXIT_FAILURE
                         /\ pc' = "cleanup"
                         /\ UNCHANGED exit_code
               /\ UNCHANGED <<child, last_size, printed_something>>
          ELSE IF spawn_res # 0
          THEN /\ exit_status' = EXIT_FAILURE
               /\ pc' = "cleanup"
               /\ UNCHANGED <<exit_code, child, last_size, printed_something>>
          ELSE /\ child' = "running"
               /\ last_size' = 0
               /\ printed_something' = FALSE
               /\ pc' = "fstat"
               /\ UNCHANGED <<exit_code, exit_status>>
  /\ UNCHANGED <<tmpfd, fd_open, delete_file_in_cwd, fs, unlinked,
                 file_actions, child_status, file, off, childOut, st_size,
                 last_line, out>>
  /\ UNCHANGED <<created, dump_start>>
  /\ UNCHANGED <<quiet, oob>>

SyscallResults == {-1, 0}

\* lines 181-190: top of the loop: nanosleep, fstat, compare with last_size
Fstat ==
  /\ pc = "fstat"
  /\ \E r \in SyscallResults :
       IF r < 0
       THEN pc' = "waitpid" /\ UNCHANGED st_size
       ELSE /\ st_size' = Len(file)
            /\ pc' = IF Len(file) > last_size THEN "lseek" ELSE "waitpid"
  /\ UNCHANGED <<exit_code, exit_status, tmpfd, fd_open, delete_file_in_cwd,
                 fs, unlinked, file_actions, child, child_status, file, off,
                 childOut, last_size, last_line, printed_something, out>>
  /\ UNCHANGED <<created, start_failed, dump_start>>
  /\ UNCHANGED <<quiet, oob>>

\* mutant: a failed seek or read ends the loop
OnSeekOrReadFailure_Fatal == "cleanup"
\* lines 193 and 199: continue, back to the top of the loop
OnSeekOrReadFailure == "fstat"

\* lines 190-194: lseek(tmpfd, -how_many_bytes, SEEK_END); continue on failure
Lseek ==
  /\ pc = "lseek"
  /\ LET how_many_bytes == HowManyBytes(st_size)
     IN \E r \in SyscallResults, offset \in SeekOffsets(how_many_bytes) :
          IF r < 0 \/ Len(file) + offset < 0
          THEN pc' = OnSeekOrReadFailure /\ UNCHANGED off
          ELSE off' = Len(file) + offset /\ pc' = "read"
  /\ UNCHANGED <<exit_code, exit_status, tmpfd, fd_open, delete_file_in_cwd,
                 fs, unlinked, file_actions, child, child_status, file,
                 childOut, st_size, last_size, last_line, printed_something,
                 out>>
  /\ UNCHANGED <<created, start_failed, dump_start>>
  /\ UNCHANGED <<quiet, oob>>

\* lines 207-209 after a read of no bytes: last_line[nread - 1] is the byte
\* before the buffer, which may or may not hold a newline; if it does, the
\* code stores a terminator there
OutOfBounds(win, before) ==
  IF Len(win) = 0 THEN {"read", "write"} ELSE {before}

\* lines 196-223: read the window, extract and print the fragment
Read ==
  /\ pc = "read"
  /\ \E r \in SyscallResults :
       IF r < 0
       THEN /\ pc' = OnSeekOrReadFailure
            /\ UNCHANGED <<off, last_line, out, printed_something, last_size,
                           quiet, oob>>
       ELSE LET win == ReadBytes(file, off, HOW_MANY_BYTES_FROM_THE_END)
            IN /\ off' = off + Len(win)
               /\ last_line' = win
               /\ out' = out \o CLEAR_LINE \o TailFragment(win)
               /\ printed_something' = TRUE
               /\ last_size' = ToInt(st_size)
               /\ quiet' = TRUE
               /\ oob' \in OutOfBounds(win, oob)
               /\ pc' = "waitpid"
  /\ UNCHANGED <<exit_code, exit_status, tmpfd, fd_open, delete_file_in_cwd,
                 fs, unlinked, file_actions, child, child_status, file,
                 childOut, st_size>>
  /\ UNCHANGED <<created, start_failed, dump_start>>

\* mutant: a failed wait leaves the loop like a successful run
OnWaitFailure_Break == "finalize"
\* line 232: goto cleanup
OnWaitFailure == "cleanup"

\* mutant: the loop goes on after the child was reaped with status 0
OnChildSuccess_KeepPolling == "fstat"
\* line 237: break, to the code after the loop
OnChildSuccess == "finalize"

\* lines 226-242: waitpid(child_pid, &stat_loc, WNOHANG) and the branch on it;
\* on the failure branch also the rewind and the clear before the dump
Waitpid ==
  /\ pc = "waitpid"
  /\ \/ \* wait_res < 0
        /\ pc' = OnWaitFailure
        /\ UNCHANGED <<child, exit_status, off, out, dump_start>>
     \/ \* wait_res = 0: the child has not exited
        /\ child = "running"
        /\ pc' = "fstat"
        /\ UNCHANGED <<child, exit_status, off, out, dump_start>>
     \/ \* wait_res = child_pid
        /\ child = "zombie"
        /\ child' = "reaped"
        /\ exit_status' = WEXITSTATUS(child_status)
        /\ IF WIFEXITED(child_status) /\ WEXITSTATUS(child_status) = 0
           THEN pc' = OnChildSuccess /\ UNCHANGED <<off, out, dump_start>>
           ELSE /\ off' = 0
                /\ out' = out \o CLEAR_LINE
                /\ dump_start' = Len(out) + Len(CLEAR_LINE)
                /\ pc' = "dump"
  /\ UNCHANGED <<exit_code, tmpfd, fd_open, delete_file_in_cwd, fs, unlinked,
                 file_actions, child_status, file, childOut, st_size,
                 last_size, last_line, printed_something>>
  /\ UNCHANGED <<created, start_failed>>
  /\ UNCHANGED <<quiet, oob>>

\* lines 244-256: one turn of the dump loop
DumpRead ==
  /\ pc = "dump"
  /\ \E r \in SyscallResults :
       IF r < 0
       THEN pc' = "cleanup" /\ UNCHANGED <<off, out>>
       ELSE LET buf == ReadBytes(file, off, PRINT_BUF_SIZE - 1)
            IN IF Len(buf) > 0
               THEN /\ out' = out \o CStr(buf, 0)
                    /\ off' = off + Len(buf)
                    /\ pc' = "dump"
               ELSE pc' = "cleanup" /\ UNCHANGED <<off, out>>
  /\ UNCHANGED <<exit_code, exit_status, tmpfd, fd_open, delete_file_in_cwd,
                 fs, unlinked, file_actions, child, child_status, file,
                 childOut, st_size, last_size, last_line, printed_something>>
  /\ UNCHANGED <<created, start_failed, dump_start>>
  /\ UNCHANGED <<quiet, oob>>

\* lines 261-264: if (printed_something) putchar('\n')
\* mutant: the newline written whether or not anything was printed
FinalNewline_Always == <<NL>>
FinalNewline == IF printed_something THEN <<NL>> ELSE <<>>

Finalize ==
  /\ pc = "finalize"
  /\ out' = out \o FinalNewline
  /\ pc' = "cleanup"
  /\ UNCHANGED <<exit_code, exit_status, tmpfd, fd_open, delete_file_in_cwd,
                 fs, unlinked, file_actions, child, child_status, file, off,
                 childOut, st_size, last_size, last_line, printed_something>>
  /\ UNCHANGED <<created, start_failed, dump_start>>
  /\ UNCHANGED <<quiet, oob>>

\* mutant: the code after the destroy call goes on at the close
AfterDestroy_SkipUnlink == "close"
\* line 271: the label cleanup_temp_file follows the destroy call
AfterDestroy == "cleanup_temp_file"

\* lines 266-269: the result of the destroy call is only reported
Cleanup ==
  /\ pc = "cleanup"
  /\ file_actions' = {}
  /\ pc' = AfterDestroy
  /\ UNCHANGED <<exit_code, exit_status, tmpfd, fd_open, delete_file_in_cwd,
                 fs, unlinked, child, child_status, file, off, childOut,
                 st_size, last_size, last_line, printed_something, out>>
  /\ UNCHANGED <<created, start_failed, dump_start>>
  /\ UNCHANGED <<quiet, oob>>

\* mutant: cleanup ignores delete_file_in_cwd
PathToDelete_AlwaysCwd == CWD
\* the path cleanup unlinks
PathToDelete == IF delete_file_in_cwd THEN CWD ELSE TMP

\* lines 271-282
CleanupTempFile ==
  /\ pc = "cleanup_temp_file"
  /\ unlinked' = Append(unlinked, PathToDelete)
  /\ \E r \in SyscallResults :
       IF r < 0
       THEN /\ \E w \in StderrResults :
                 IF w < 0 THEN Exit(FAILED_TO_WRITE_TO_STDERR)
                 ELSE pc' = "close" /\ UNCHANGED exit_code
            /\ UNCHANGED fs
       ELSE /\ fs' = fs \ {PathToDelete}
            /\ pc' = "close"
            /\ UNCHANGED exit_code
  /\ UNCHANGED <<exit_status, tmpfd, fd_open, delete_file_in_cwd,
                 file_actions, child, child_status, file, off, childOut,
                 st_size, last_size, last_line, printed_something, out>>
  /\ UNCHANGED <<created, start_failed, dump_start>>
  /\ UNCHANGED <<quiet, oob>>

\* lines 284-288: close (a failure is only reported) and return exit_status
CloseAndReturn ==
  /\ pc = "close"
  /\ fd_open' = FALSE
  /\ Exit(exit_status)
  /\ UNCHANGED <<exit_status, tmpfd, delete_file_in_cwd, fs, unlinked,
                 file_actions, child, child_status, file, off, childOut,
                 st_size, last_size, last_line, printed_something, out, created,
          start_failed, dump_start>>
  /\ UNCHANGED <<created, start_failed, dump_start>>
  /\ UNCHANGED <<quiet, oob>>

\* ------------------------------------------------------------ the child
\* the child writes to its stdout or stderr; the write reaches the scratch
\* file when the file actions put tmpfd there, at the shared offset
ChildWrite ==
  /\ child = "running"
  /\ file_actions # {}
  /\ \E data \in SeqsUpTo(MaxWrite) \ {<<>>} :
       /\ Len(childOut) + Len(data) <= MaxFile
       /\ file' = WriteAt(file, off, data)
       /\ off' = off + Len(data)
       /\ childOut' = childOut \o data
  /\ quiet' = FALSE
  /\ UNCHANGED oob
  /\ UNCHANGED <<pc, exit_code, exit_status, tmpfd, fd_open,
                 delete_file_in_cwd, fs, unlinked, file_actions, child,
                 child_status, st_size, last_size, last_line,
                 printed_something, out>>
  /\ UNCHANGED <<created, start_failed, dump_start>>

\* the child exits or is killed
ChildExit ==
  /\ child = "running"
  /\ child' = "zombie"
  /\ \E s \in ChildStatuses : child_status' = s
  /\ UNCHANGED <<pc, exit_code, exit_status, tmpfd, fd_open,
                 delete_file_in_cwd, fs, unlinked, file_actions, file, off,
                 childOut, st_size, last_size, last_line, printed_something,
                 out>>
  /\ UNCHANGED <<created, start_failed, dump_start>>
  /\ UNCHANGED <<quiet, oob>>

Next ==
  \/ CheckInputs
  \/ MkstempCwd
  \/ MkstempTmp
  \/ FileActionsInit
  \/ AddDup2Stdout
  \/ AddDup2Stderr
  \/ Spawn
  \/ Fstat
  \/ Lseek
  \/ Read
  \/ Waitpid
  \/ DumpRead
  \/ Finalize
  \/ Cleanup
  \/ CleanupTempFile
  \/ CloseAndReturn
  \/ ChildWrite
  \/ ChildExit

Spec == Init /\ [][Next]_vars

\* the supervisor's steps
Supervisor ==
  \/ CheckInputs \/ MkstempCwd \/ MkstempTmp \/ FileActionsInit
  \/ AddDup2Stdout \/ AddDup2Stderr \/ Spawn \/ Fstat \/ Lseek \/ Read
  \/ Waitpid \/ DumpRead \/ Finalize \/ Cleanup \/ CleanupTempFile
  \/ CloseAndReturn

\* The supervisor keeps running (no call of the loop blocks: the wait is
\* WNOHANG, the sleep is bounded); the child eventually exits; a seek or a
\* read that is tried again and again eventually succeeds.
Fairness ==
  /\ WF_vars(Supervisor)
  /\ WF_vars(ChildExit)
  /\ SF_vars(Lseek /\ pc' = "read")
  /\ SF_vars(Read /\ pc' = "waitpid")

\* the child of the runs checked for termination writes at most
\* LiveMaxFile bytes
LiveChildWrite == ChildWrite /\ Len(childOut') <= LiveMaxFile

LiveNext == Supervisor \/ LiveChildWrite \/ ChildExit

LiveSpec == Init /\ [][LiveNext]_vars /\ Fairness

\* The poll on large files: the loop is entered with SizeMax or fewer bytes
\* already written by the child, which writes no more
SizeInit ==
  /\ pc = "fstat"
  /\ exit_code = -1
  /\ exit_status = EXIT_SUCCESS
  /\ tmpfd = 3
  /\ fd_open = TRUE
  /\ delete_file_in_cwd = TRUE
  /\ fs = {CWD}
  /\ unlinked = <<>>
  /\ file_actions = {1, 2}
  /\ child = "running"
  /\ child_status = 0
  /\ \E n \in 0..SizeMax : file = [i \in 1..n |-> 97]
  /\ off = Len(file)
  /\ childOut = file
  /\ st_size = 0
  /\ last_size = 0
  /\ last_line = <<>>
  /\ printed_something = FALSE
  /\ out = <<>>
  /\ created = {CWD}
  /\ start_failed = FALSE
  /\ dump_start = -1
  /\ quiet = FALSE
  /\ oob = "none"

\* the tail read, while the output is at most SizeMaxOut bytes
SizeRead == Read /\ Len(out') <= SizeMaxOut

SizeNext ==
  \/ Fstat \/ Lseek \/ SizeRead \/ Waitpid \/ DumpRead \/ Finalize
  \/ Cleanup \/ CleanupTempFile \/ CloseAndReturn \/ ChildExit

SizeSpec == SizeInit /\ [][SizeNext]_vars

\* ------------------------------------------------- vocabulary of the claims
\* the child's wait status, decoded independently of the macros main uses
ChildExitedNormally == child_status % 128 = 0
ChildExitCode == child_status \div 256
ChildSignaled == child_status % 128 # 0

\* the supervisor got the child's status from waitpid
Reaped == child = "reaped"
ReapedExit0 == Reaped /\ ChildExitedNormally /\ ChildExitCode = 0
ReapedExitNonzero == Reaped /\ ChildExitedNormally /\ ChildExitCode # 0
ReapedSignaled == Reaped /\ ChildSignaled

LoopPcs == {"fstat", "lseek", "read", "waitpid"}
AfterLoopPcs == {"cleanup", "cleanup_temp_file", "close", "terminated"}
Terminated == pc = "terminated"
\* the process ended in exit() inside error(), not by main's return: the
\* descriptor was never closed
ExitedInError == Terminated /\ fd_open
Returned == Terminated /\ created # {} /\ ~fd_open

Range(s) == {s[i] : i \in 1..Len(s)}
IsPrefix(s, t) == Len(s) <= Len(t) /\ SubSeq(t, 1, Len(s)) = s
LastBytes(s, n) == IF Len(s) <= n THEN s ELSE SubSeq(s, Len(s) - n + 1, Len(s))

\* what is on the terminal line: the output after the last carriage return
AfterLastCR(s) ==
  LET cr == {i \in 1..Len(s) : s[i] = 13}
  IN IF cr = {} THEN s
     ELSE SubSeq(s, (CHOOSE i \in cr : \A j \in cr : j <= i) + 1, Len(s))

\* a fragment was rendered: the output holds a clear sequence
Rendered == 27 \in Range(out)

\* the bytes of the full dump
Dumped == SubSeq(out, dump_start + 1, Len(out))

\* reference tail line of a window: drop one trailing newline, then take
\* what follows the last remaining newline, or all of it if there is none
RefFragment(win) ==
  LET t == IF win # <<>> /\ win[Len(win)] = NL
           THEN SubSeq(win, 1, Len(win) - 1) ELSE win
      nl == {i \in 1..Len(t) : t[i] = NL}
  IN IF nl = {} THEN t
     ELSE SubSeq(t, (CHOOSE i \in nl : \A j \in nl : j <= i) + 1, Len(t))

TypeOK ==
  /\ exit_code \in -1..255
  /\ off \in 0..Len(file)
  /\ Len(file) <= MaxFile
  /\ last_size <= Len(file)

C2_SignaledExitsNonzero ==
  (Terminated /\ ReapedSignaled) => (dump_start >= 0 /\ exit_code # 0)

\* ------------------------------------------------------------------ C3
\* C3: when the child exited with status 0, the fragment on the terminal
\* line before the final newline is the tail line of everything the child
\* wrote (within the window of the tail read).  Stated for text output (no
\* zero byte) that reached the file in the order it was written.
C3_FinalTailLine ==
  (ReapedExit0 /\ pc \in AfterLoopPcs /\ childOut # <<>>
     /\ NUL \notin Range(childOut) /\ file = childOut) =>
     /\ Rendered
     /\ AfterLastCR(out) =
          RefFragment(LastBytes(childOut, HOW_MANY_BYTES_FROM_THE_END)) \o <<NL>>

\* ------------------------------------------------------------------ C4
\* C4: when the dump ran to the end of the file, the bytes written after
\* the clear sequence are exactly the scratch file's content.
C4_DumpIsWholeFile ==
  (dump_start >= 0 /\ pc \in AfterLoopPcs /\ off = Len(file)) =>
     /\ SubSeq(out, dump_start - Len(CLEAR_LINE) + 1, dump_start) = CLEAR_LINE
     /\ Dumped = file

\* ------------------------------------------------------------------ C5
\* C5: on every termination after the scratch file was created, unlink was
\* called exactly once, on the path that was created.
C5_UnlinkedExactlyOnce ==
  (Terminated /\ created # {}) => \E path \in created : unlinked = <<path>>

\* ------------------------------------------------------------------ C6
\* C6: after a failure between the creation of the scratch file and the
\* loop, the supervisor never enters the loop, has no child, and
\* terminates with a nonzero exit code.
C6_StartFailureIsFatal ==
  (start_failed /\ created # {}) =>
     /\ pc \notin LoopPcs
     /\ child = "none"
     /\ Terminated => exit_code # 0

C8_Failover ==
  /\ created = {TMP} =>
        /\ tmpfd >= 0
        /\ CWD \notin Range(unlinked)
        /\ (pc = "close" \/ Returned) => unlinked = <<TMP>>
  /\ (created = {} /\ Terminated) => (exit_code # 0 /\ child = "none")
  /\ (created = {} /\ ~delete_file_in_cwd) => pc \in {"mkstemp_tmp", "terminated"}
  /\ CWD \in created =>
        /\ created = {CWD}
        /\ TMP \notin Range(unlinked)
        /\ (pc = "close" \/ Returned) => unlinked = <<CWD>>

\* the primary location failed, the fallback file was used for a whole run
\* with output, and cleanup unlinked it
C8_Witness ==
  /\ Returned /\ created = {TMP} /\ unlinked = <<TMP>> /\ TMP \notin fs
  /\ Reaped /\ file # <<>>

\* ------------------------------------------------------------------ C9
\* C9: the scratch file is append-only: every step leaves the old content
\* as a prefix of the new content, and the size the supervisor observes
\* never decreases.
C9_AppendOnly ==
  [][IsPrefix(file, file') /\ st_size <= st_size']_vars

\* ----------------------------------------------------------------- C10
\* C10: the fragment rendered for a window of 1..W bytes (of text: no zero
\* byte) is the reference tail line of the window, and holds no newline.
C10_FragmentIsReference ==
  (pc \in LoopPcs /\ printed_something /\ last_line # <<>>
     /\ NUL \notin Range(last_line)) =>
     /\ AfterLastCR(out) = RefFragment(last_line)
     /\ NL \notin Range(AfterLastCR(out))

\* ----------------------------------------------------------------- C11
\* C11: a poll iteration that follows a successful tail read with no child
\* write in between renders nothing and leaves last_size and
\* printed_something alone; and no iteration redraws unless the size it
\* stat'd is greater than last_size.  Stated for runs in which every child
\* write was appended.
C11_PollIdempotent ==
  [][/\ (quiet /\ file = childOut /\ pc = "fstat" /\ pc' # "fstat") =>
          /\ pc' = "waitpid"
          /\ out' = out
          /\ last_size' = last_size
          /\ printed_something' = printed_something
     /\ (pc \in LoopPcs /\ pc' \in LoopPcs /\ out' # out) => st_size > last_size
    ]_vars

\* ----------------------------------------------------------------- C12
\* the step is a failed fstat with unread bytes in the file, a failed lseek
\* or a failed read of the tail poll
FailedStat == pc = "fstat" /\ pc' = "waitpid" /\ Len(file) > last_size
FailedSeek == pc = "lseek" /\ pc' \notin {"lseek", "read"}
FailedRead == pc = "read" /\ pc' \notin {"read", "waitpid"}

\* C12: a failed fstat, lseek or read of the tail poll leaves last_size,
\* printed_something and the output as they were and keeps the supervisor
\* in the loop, with the unread bytes still ahead of last_size so that the
\* next iteration reads again.
C12_PollFailureChangesNothing ==
  [][(FailedStat \/ FailedSeek \/ FailedRead) =>
        /\ last_size' = last_size
        /\ printed_something' = printed_something
        /\ out' = out
        /\ pc' \in LoopPcs
        /\ exit_code' = -1
        /\ Len(file') > last_size'
    ]_vars

\* at the top of the loop after a seek or read that failed: the size stat'd
\* is ahead of last_size, which still has the value of an earlier read
C12_Witness ==
  /\ pc = "fstat" /\ st_size > last_size
  /\ printed_something /\ last_size > 0

\* ----------------------------------------------------------------- C13
\* C13: every iteration of the loop ends with the wait, so the top of the
\* loop is only ever entered again from the wait; and a wait that finds the
\* child exited leaves the loop.
C13_EveryIterationWaits ==
  [][/\ (pc \in LoopPcs /\ pc # "fstat" /\ pc' = "fstat") => pc = "waitpid"
     /\ (pc = "waitpid" /\ child = "zombie" /\ pc' # pc) => pc' \notin LoopPcs
    ]_vars

\* ----------------------------------------------------------------- C14
\* C14 as stated, in the form of its final result: a supervisor that
\* terminated after spawning the child has reaped the child and has
\* returned from main.
C14_TerminatesReaped ==
  (Terminated /\ child # "none") => (Reaped /\ ~fd_open)

\* C14 amended: once the child is spawned the supervisor eventually
\* terminates; it leaves the loop only at the wait, either by reaping the
\* exited child or because the wait failed; the child is reaped only by a
\* wait that finds it exited, stays reaped, and is never waited on again.
C14_Termination ==
  /\ (child # "none") ~> Terminated
  /\ [][/\ (pc \in LoopPcs /\ pc' \notin LoopPcs) =>
             /\ pc = "waitpid"
             /\ (child = "zombie" /\ child' = "reaped") \/ pc' = "cleanup"
        /\ child' = "reaped" => (child = "reaped" \/ (child = "zombie" /\ pc = "waitpid"))
        /\ child = "reaped" => (child' = "reaped" /\ pc' \notin LoopPcs)
       ]_vars

\* the supervisor reaped the child and returned although the bytes it last
\* stat'd were never read: a seek or read had failed on the way
C14_Witness ==
  /\ Returned /\ Reaped /\ st_size > last_size

\* ----------------------------------------------------------------- C15
\* the supervisor left the loop without reaping the child it spawned: the
\* wait failed
WaitFailed == child \in {"running", "zombie"} /\ pc \notin LoopPcs

\* C15: after a failed wait the supervisor is in cleanup or terminated, no
\* dump was written and no newline follows the last rendered fragment, and
\* when main returns unlink was called on the scratch file and the
\* descriptor is closed.
C15_WaitFailureGoesToCleanup ==
  WaitFailed =>
     /\ pc \in AfterLoopPcs
     /\ dump_start = -1
     /\ IF printed_something
        THEN AfterLastCR(out) = TailFragment(last_line)
        ELSE out = <<>>
     /\ Returned => (~fd_open /\ \E path \in created : unlinked = <<path>>)

\* the wait failed after a fragment that is not empty was rendered, and main
\* returned
C15_Witness ==
  /\ WaitFailed /\ Returned
  /\ printed_something /\ TailFragment(last_line) # <<>>

\* ----------------------------------------------------------------- C16
\* C16 as stated: the descriptor is closed before the file is unlinked, so
\* whenever unlink has been called the descriptor is already closed.
C16_ClosedBeforeUnlink ==
  unlinked # <<>> => ~fd_open

\* C16 amended: in cleanup the file is unlinked first and the descriptor is
\* closed afterwards: unlink is called while the descriptor is open, and
\* the descriptor is closed only after unlink was called.
C16_UnlinkBeforeClose ==
  [][/\ unlinked' # unlinked => (fd_open /\ fd_open')
     /\ (fd_open /\ ~fd_open') => (Len(unlinked) = 1 /\ unlinked' = unlinked)
    ]_vars

\* cleanup was reached from a failure before the loop and ran to the end
C16_Witness ==
  /\ Returned /\ start_failed /\ child = "none" /\ Len(unlinked) = 1

\* ----------------------------------------------------------------- C17
\* C17: last_size never decreases, changes only in the step of an iteration
\* that renders a fragment, and is always between 0 and the size of the
\* scratch file.
C17_LastSizeMonotone ==
  /\ [](0 <= last_size /\ last_size <= Len(file))
  /\ [][/\ last_size' >= last_size
        /\ last_size' # last_size => (pc = "read" /\ out' # out)
       ]_vars

\* ----------------------------------------------------------------- C18
\* the indexes the code uses on last_line for the bytes win of a read
IndexesUsed(win) == {Len(win), Len(win) - 1, PosOfNl(win), PrintOffset(win)}

\* C18: whenever the trim and the scan have run, the read had returned
\* between 1 and W bytes and every index used on last_line is in 0..W.
C18_WindowIndexesInBounds ==
  /\ oob = "none"
  /\ printed_something =>
        /\ Len(last_line) \in 1..HOW_MANY_BYTES_FROM_THE_END
        /\ IndexesUsed(last_line) \subseteq 0..HOW_MANY_BYTES_FROM_THE_END

\* ----------------------------------------------------------------- C19
\* C19: for every size fstat reports, the window length the code computes
\* is between 1 and min(W, size), the seek lands inside the file at
\* size - n, and the last_size stored after the read is the stat'd size.
C19_WindowArithmetic ==
  /\ pc = "lseek" =>
        HowManyBytes(st_size) \in 1..min(HOW_MANY_BYTES_FROM_THE_END, st_size)
  /\ pc = "read" =>
        /\ off \in 0..Len(file)
        /\ off = st_size - HowManyBytes(st_size)
  /\ quiet => last_size = st_size
====
